---- MODULE Spec2Model ----
(***************************************************************************)
(* Model of educe's RST-DT feature extraction                              *)
(* (educe/rst_dt/learning/features.py) and of the vocabulary dumper        *)
(* (educe/learning/vocabulary_format.py).                                  *)
(*                                                                         *)
(* Strings that the code inspects character by character (EDU text, the    *)
(* dumped vocabulary file) are sequences of one-character strings.         *)
(* Feature names (dictionary keys, CSV headers) are TLA+ strings.          *)
(***************************************************************************)
EXTENDS Integers, Sequences, FiniteSets, TLC

VARIABLES
    \* ---- extract_pair_features (the generator's frame) ----
    live,         \* the `live` argument
    ndocs,        \* len(inputs.corpus)
    pc,           \* position of the generator
    k,            \* number of documents already taken from the corpus
    current,      \* DocumentPlus of the document being processed
    relations,    \* local `relations`
    sf_cache,     \* local `sf_cache`: EDU -> identity of a SingleEduKeys
    heap,         \* SingleEduKeys objects of this document, by identity
    ci,           \* position of `for edu in edus`
    pi,           \* position of `for epair in itertools.product(edus, edus)`
    vec,          \* local `vec`
    pairs_vec,    \* local `pairs_vec`
    rels_vec,     \* local `rels_vec`
    out,          \* the value handed to the consumer by the last yield
    emitted,      \* history: the records yielded for the current document
    single_new,   \* history: SingleEduKeys constructed for this document
    single_fill,  \* history: EDU -> number of SingleEduKeys.fill calls
    \* ---- tokens_feature applied to one EDU text ----
    tpc, text, tfeat,
    \* ---- dump_vocabulary and _dump_vocabulary ----
    vpc,          \* "input", then "done" or the exception the call raised
    vocabulary,   \* argument `vocabulary`, its items in iteration order
    f,            \* the content of the file the call writes to
    \* ---- num_edus_between applied to two EDUs of one document ----
    gpc,          \* "input", then "done"
    gap_u1,       \* argument `edu1`
    gap_u2,       \* argument `edu2`
    gap,          \* the values returned for (edu1, edu2) and for (edu2, edu1)
    \* ---- the interpreter the package runs under ----
    python3       \* TRUE for a Python 3 (CPython 3.11, Unicode 14.0),
                  \* FALSE for a Python 2 (CPython 2.7, Unicode 5.2)

dvars == <<live, ndocs, pc, k, current, relations, sf_cache, heap, ci, pi,
           vec, pairs_vec, rels_vec, out, emitted, single_new, single_fill>>
tvars == <<tpc, text, tfeat>>
vvars == <<vpc, vocabulary, f>>
gvars == <<gpc, gap_u1, gap_u2, gap>>
vars == <<dvars, tvars, vvars, gvars, python3>>

\* Python's None.  A name that may hold None or an object holds either
\* None or a pair: <<"dict", d>> for a dict d, <<"SingleEduKeys", o>> for
\* an object held directly, <<doc, serial>> for a reference into `heap`.
None == <<"None">>
\* A local name that has not been bound yet.
Unbound == [unbound |-> TRUE]

Max(a, b) == IF a >= b THEN a ELSE b
Min(a, b) == IF a <= b THEN a ELSE b

RECURSIVE Flatten(_)
\* "".join(parts)
Flatten(parts) ==
    IF parts = <<>> THEN <<>> ELSE Head(parts) \o Flatten(Tail(parts))

(***************************************************************************)
(* Text normalisation: clean_edu_text, clean_corpus_word, tokens_feature,  *)
(* word_first, word_last, num_tokens.                                      *)
(***************************************************************************)

\* Length of the alternative of (\.|<P>|,) that matches at offset i
\* (0-based) of t, or 0 when none does.
TokenAt(t, i) ==
    IF i + 1 <= Len(t) /\ t[i + 1] = "." THEN 1
    ELSE IF i + 3 <= Len(t) /\ t[i + 1] = "<" /\ t[i + 2] = "P" /\ t[i + 3] = ">"
         THEN 3
    ELSE IF i + 1 <= Len(t) /\ t[i + 1] = "," THEN 1
    ELSE 0

\* `$` without re.MULTILINE: at the end of the string, or just before a
\* newline that is the last character.
Dollar(t, i) ==
    \/ i = Len(t)
    \/ i = Len(t) - 1 /\ t[Len(t)] = "\n"

RECURSIVE MatchRunAtEnd(_, _)
\* The offset where a match of (\.|<P>|,)*$ starting at offset i ends, or
\* -1 when there is none: the greedy star first tries one more repetition
\* and backtracks to stopping here.
MatchRunAtEnd(t, i) ==
    LET n == TokenAt(t, i)
        more == IF n > 0 THEN MatchRunAtEnd(t, i + n) ELSE -1
    IN  IF more # -1 THEN more
        ELSE IF Dollar(t, i) THEN i
        ELSE -1

RECURSIVE SubRunAtEnd(_, _)
\* re.sub(r'(\.|<P>|,)*$', r'', t), scanning from offset pos: a non-empty
\* match is dropped and the scan goes on after it; otherwise the character
\* is kept.
SubRunAtEnd(t, pos) ==
    IF pos >= Len(t) THEN <<>>
    ELSE LET e == MatchRunAtEnd(t, pos)
         IN  IF e > pos THEN SubRunAtEnd(t, e)
             ELSE <<t[pos + 1]>> \o SubRunAtEnd(t, pos + 1)

RECURSIVE SubLeadingQuote_every(_)
SubLeadingQuote_every(t) ==
    IF Len(t) > 0 /\ t[1] = "\"" THEN SubLeadingQuote_every(Tail(t)) ELSE t

\* re.sub(r'^"', r'', t)
SubLeadingQuote(t) ==
    IF Len(t) > 0 /\ t[1] = "\"" THEN Tail(t) ELSE t

clean_edu_text(t) == SubLeadingQuote(SubRunAtEnd(t, 0))

\* A character above U+007F is named by its code point, "U+00E9" for U+00E9,
\* and is one element of a text; so is the grave accent, "U+0060", which a
\* string of this module cannot hold.  These are the ones str.split()
\* separates on.
WhitespaceAboveAscii ==
    {"U+0085", "U+00A0", "U+1680", "U+2000", "U+2001", "U+2002", "U+2003",
     "U+2004", "U+2005", "U+2006", "U+2007", "U+2008", "U+2009", "U+200A",
     "U+2028", "U+2029", "U+202F", "U+205F", "U+3000"}

\* The characters str.split() treats as separators, those for which
\* str.isspace() holds: space, tab, line feed, carriage return, form feed,
\* then U+000B (vertical tab), U+001C, U+001D, U+001E and U+001F written as
\* the characters themselves, then the ones above U+007F.
Whitespace ==
    {" ", "\t", "\n", "\r", "\f", "", "", "", "", ""}
        \cup WhitespaceAboveAscii

\* What the interpreter's split() separates on.  A text is a string of
\* characters (unicode in a Python 2), and for a Python 2, whose tables are
\* those of Unicode 5.2, U+180E is a space as well.
Separators == IF python3 THEN Whitespace ELSE Whitespace \cup {"U+180E"}

RECURSIVE SplitFrom(_, _, _)
\* str.split() with no argument: runs of whitespace separate the words and
\* no empty word is produced.  `word` is the word being read.
SplitFrom(t, i, word) ==
    IF i > Len(t) THEN (IF word = <<>> THEN <<>> ELSE <<word>>)
    ELSE IF t[i] \in Separators
         THEN (IF word = <<>> THEN <<>> ELSE <<word>>) \o SplitFrom(t, i + 1, <<>>)
         ELSE SplitFrom(t, i + 1, Append(word, t[i]))

Split(t) == SplitFrom(t, 1, <<>>)

\* The letters of ASCII.
UpperCase == <<"A", "B", "C", "D", "E", "F", "G", "H", "I", "J", "K", "L", "M",
               "N", "O", "P", "Q", "R", "S", "T", "U", "V", "W", "X", "Y", "Z">>
LowerCase == <<"a", "b", "c", "d", "e", "f", "g", "h", "i", "j", "k", "l", "m",
               "n", "o", "p", "q", "r", "s", "t", "u", "v", "w", "x", "y", "z">>

HexDigit == <<"0", "1", "2", "3", "4", "5", "6", "7", "8", "9",
              "A", "B", "C", "D", "E", "F">>

RECURSIVE Hex(_)
Hex(n) ==
    IF n < 16 THEN HexDigit[n + 1] ELSE Hex(n \div 16) \o HexDigit[(n % 16) + 1]

\* The ASCII characters of the tables below that are not letters.
AsciiMarks == (39 :> "'") @@ (46 :> ".") @@ (58 :> ":") @@ (94 :> "^") @@ (96 :> "U+0060")

\* The character with code point n, for the code points of the tables below:
\* an ASCII character as itself, the grave accent and a character above
\* U+007F by its name, "U+" and at least four hexadecimal digits.
Chr(n) ==
    IF n \in 65..90 THEN UpperCase[n - 64]
    ELSE IF n \in 97..122 THEN LowerCase[n - 96]
    ELSE IF n < 128 THEN AsciiMarks[n]
    ELSE IF n < 256 THEN "U+00" \o Hex(n)
    ELSE IF n < 4096 THEN "U+0" \o Hex(n)
    ELSE "U+" \o Hex(n)

\* The code points first, first + step, ... up to last.
RunSet(first, last, step) == {n \in first..last : (n - first) % step = 0}

\* str.lower() of a Python 3 (Unicode 14.0), one character at a time: the
\* characters it changes into one other character, as runs
\* <<first, last, step, d>>: each of first, first + step, ..., last becomes
\* the character d code points further.  U+03A3 is in a run as it becomes
\* U+03C3 on its own; in a word see FinalSigma.
LowerRuns ==
    << <<\h0041, \h005A, 1, 32>>, <<\h00C0, \h00D6, 1, 32>>, <<\h00D8, \h00DE, 1, 32>>,
      <<\h0100, \h012E, 2, 1>>, <<\h0132, \h0136, 2, 1>>, <<\h0139, \h0147, 2, 1>>,
      <<\h014A, \h0176, 2, 1>>, <<\h0178, \h0178, 1, -121>>, <<\h0179, \h017D, 2, 1>>,
      <<\h0181, \h0181, 1, 210>>, <<\h0182, \h0184, 2, 1>>, <<\h0186, \h0186, 1, 206>>,
      <<\h0187, \h0187, 1, 1>>, <<\h0189, \h018A, 1, 205>>, <<\h018B, \h018B, 1, 1>>,
      <<\h018E, \h018E, 1, 79>>, <<\h018F, \h018F, 1, 202>>, <<\h0190, \h0190, 1, 203>>,
      <<\h0191, \h0191, 1, 1>>, <<\h0193, \h0193, 1, 205>>, <<\h0194, \h0194, 1, 207>>,
      <<\h0196, \h0196, 1, 211>>, <<\h0197, \h0197, 1, 209>>, <<\h0198, \h0198, 1, 1>>,
      <<\h019C, \h019C, 1, 211>>, <<\h019D, \h019D, 1, 213>>, <<\h019F, \h019F, 1, 214>>,
      <<\h01A0, \h01A4, 2, 1>>, <<\h01A6, \h01A6, 1, 218>>, <<\h01A7, \h01A7, 1, 1>>,
      <<\h01A9, \h01A9, 1, 218>>, <<\h01AC, \h01AC, 1, 1>>, <<\h01AE, \h01AE, 1, 218>>,
      <<\h01AF, \h01AF, 1, 1>>, <<\h01B1, \h01B2, 1, 217>>, <<\h01B3, \h01B5, 2, 1>>,
      <<\h01B7, \h01B7, 1, 219>>, <<\h01B8, \h01B8, 1, 1>>, <<\h01BC, \h01BC, 1, 1>>,
      <<\h01C4, \h01C4, 1, 2>>, <<\h01C5, \h01C5, 1, 1>>, <<\h01C7, \h01C7, 1, 2>>,
      <<\h01C8, \h01C8, 1, 1>>, <<\h01CA, \h01CA, 1, 2>>, <<\h01CB, \h01DB, 2, 1>>,
      <<\h01DE, \h01EE, 2, 1>>, <<\h01F1, \h01F1, 1, 2>>, <<\h01F2, \h01F4, 2, 1>>,
      <<\h01F6, \h01F6, 1, -97>>, <<\h01F7, \h01F7, 1, -56>>, <<\h01F8, \h021E, 2, 1>>,
      <<\h0220, \h0220, 1, -130>>, <<\h0222, \h0232, 2, 1>>, <<\h023A, \h023A, 1, 10795>>,
      <<\h023B, \h023B, 1, 1>>, <<\h023D, \h023D, 1, -163>>, <<\h023E, \h023E, 1, 10792>>,
      <<\h0241, \h0241, 1, 1>>, <<\h0243, \h0243, 1, -195>>, <<\h0244, \h0244, 1, 69>>,
      <<\h0245, \h0245, 1, 71>>, <<\h0246, \h024E, 2, 1>>, <<\h0370, \h0372, 2, 1>>,
      <<\h0376, \h0376, 1, 1>>, <<\h037F, \h037F, 1, 116>>, <<\h0386, \h0386, 1, 38>>,
      <<\h0388, \h038A, 1, 37>>, <<\h038C, \h038C, 1, 64>>, <<\h038E, \h038F, 1, 63>>,
      <<\h0391, \h03A1, 1, 32>>, <<\h03A3, \h03AB, 1, 32>>, <<\h03CF, \h03CF, 1, 8>>,
      <<\h03D8, \h03EE, 2, 1>>, <<\h03F4, \h03F4, 1, -60>>, <<\h03F7, \h03F7, 1, 1>>,
      <<\h03F9, \h03F9, 1, -7>>, <<\h03FA, \h03FA, 1, 1>>, <<\h03FD, \h03FF, 1, -130>>,
      <<\h0400, \h040F, 1, 80>>, <<\h0410, \h042F, 1, 32>>, <<\h0460, \h0480, 2, 1>>,
      <<\h048A, \h04BE, 2, 1>>, <<\h04C0, \h04C0, 1, 15>>, <<\h04C1, \h04CD, 2, 1>>,
      <<\h04D0, \h052E, 2, 1>>, <<\h0531, \h0556, 1, 48>>, <<\h10A0, \h10C5, 1, 7264>>,
      <<\h10C7, \h10C7, 1, 7264>>, <<\h10CD, \h10CD, 1, 7264>>, <<\h13A0, \h13EF, 1, 38864>>,
      <<\h13F0, \h13F5, 1, 8>>, <<\h1C90, \h1CBA, 1, -3008>>, <<\h1CBD, \h1CBF, 1, -3008>>,
      <<\h1E00, \h1E94, 2, 1>>, <<\h1E9E, \h1E9E, 1, -7615>>, <<\h1EA0, \h1EFE, 2, 1>>,
      <<\h1F08, \h1F0F, 1, -8>>, <<\h1F18, \h1F1D, 1, -8>>, <<\h1F28, \h1F2F, 1, -8>>,
      <<\h1F38, \h1F3F, 1, -8>>, <<\h1F48, \h1F4D, 1, -8>>, <<\h1F59, \h1F5F, 2, -8>>,
      <<\h1F68, \h1F6F, 1, -8>>, <<\h1F88, \h1F8F, 1, -8>>, <<\h1F98, \h1F9F, 1, -8>>,
      <<\h1FA8, \h1FAF, 1, -8>>, <<\h1FB8, \h1FB9, 1, -8>>, <<\h1FBA, \h1FBB, 1, -74>>,
      <<\h1FBC, \h1FBC, 1, -9>>, <<\h1FC8, \h1FCB, 1, -86>>, <<\h1FCC, \h1FCC, 1, -9>>,
      <<\h1FD8, \h1FD9, 1, -8>>, <<\h1FDA, \h1FDB, 1, -100>>, <<\h1FE8, \h1FE9, 1, -8>>,
      <<\h1FEA, \h1FEB, 1, -112>>, <<\h1FEC, \h1FEC, 1, -7>>, <<\h1FF8, \h1FF9, 1, -128>>,
      <<\h1FFA, \h1FFB, 1, -126>>, <<\h1FFC, \h1FFC, 1, -9>>, <<\h2126, \h2126, 1, -7517>>,
      <<\h212A, \h212A, 1, -8383>>, <<\h212B, \h212B, 1, -8262>>, <<\h2132, \h2132, 1, 28>>,
      <<\h2160, \h216F, 1, 16>>, <<\h2183, \h2183, 1, 1>>, <<\h24B6, \h24CF, 1, 26>>,
      <<\h2C00, \h2C2F, 1, 48>>, <<\h2C60, \h2C60, 1, 1>>, <<\h2C62, \h2C62, 1, -10743>>,
      <<\h2C63, \h2C63, 1, -3814>>, <<\h2C64, \h2C64, 1, -10727>>, <<\h2C67, \h2C6B, 2, 1>>,
      <<\h2C6D, \h2C6D, 1, -10780>>, <<\h2C6E, \h2C6E, 1, -10749>>, <<\h2C6F, \h2C6F, 1, -10783>>,
      <<\h2C70, \h2C70, 1, -10782>>, <<\h2C72, \h2C72, 1, 1>>, <<\h2C75, \h2C75, 1, 1>>,
      <<\h2C7E, \h2C7F, 1, -10815>>, <<\h2C80, \h2CE2, 2, 1>>, <<\h2CEB, \h2CED, 2, 1>>,
      <<\h2CF2, \h2CF2, 1, 1>>, <<\hA640, \hA66C, 2, 1>>, <<\hA680, \hA69A, 2, 1>>,
      <<\hA722, \hA72E, 2, 1>>, <<\hA732, \hA76E, 2, 1>>, <<\hA779, \hA77B, 2, 1>>,
      <<\hA77D, \hA77D, 1, -35332>>, <<\hA77E, \hA786, 2, 1>>, <<\hA78B, \hA78B, 1, 1>>,
      <<\hA78D, \hA78D, 1, -42280>>, <<\hA790, \hA792, 2, 1>>, <<\hA796, \hA7A8, 2, 1>>,
      <<\hA7AA, \hA7AA, 1, -42308>>, <<\hA7AB, \hA7AB, 1, -42319>>, <<\hA7AC, \hA7AC, 1, -42315>>,
      <<\hA7AD, \hA7AD, 1, -42305>>, <<\hA7AE, \hA7AE, 1, -42308>>, <<\hA7B0, \hA7B0, 1, -42258>>,
      <<\hA7B1, \hA7B1, 1, -42282>>, <<\hA7B2, \hA7B2, 1, -42261>>, <<\hA7B3, \hA7B3, 1, 928>>,
      <<\hA7B4, \hA7C2, 2, 1>>, <<\hA7C4, \hA7C4, 1, -48>>, <<\hA7C5, \hA7C5, 1, -42307>>,
      <<\hA7C6, \hA7C6, 1, -35384>>, <<\hA7C7, \hA7C9, 2, 1>>, <<\hA7D0, \hA7D0, 1, 1>>,
      <<\hA7D6, \hA7D8, 2, 1>>, <<\hA7F5, \hA7F5, 1, 1>>, <<\hFF21, \hFF3A, 1, 32>>,
      <<\h10400, \h10427, 1, 40>>, <<\h104B0, \h104D3, 1, 40>>, <<\h10570, \h1057A, 1, 39>>,
      <<\h1057C, \h1058A, 1, 39>>, <<\h1058C, \h10592, 1, 39>>, <<\h10594, \h10595, 1, 39>>,
      <<\h10C80, \h10CB2, 1, 64>>, <<\h118A0, \h118BF, 1, 32>>, <<\h16E40, \h16E5F, 1, 32>>,
      <<\h1E900, \h1E921, 1, 34>> >>

\* unicode.lower() of a Python 2 (Unicode 5.2), which maps every character
\* on its own to one character, as runs like those of LowerRuns.
LowerRunsPython2 ==
    << <<\h0041, \h005A, 1, 32>>, <<\h00C0, \h00D6, 1, 32>>, <<\h00D8, \h00DE, 1, 32>>,
       <<\h0100, \h012E, 2, 1>>, <<\h0130, \h0130, 1, -199>>, <<\h0132, \h0136, 2, 1>>,
       <<\h0139, \h0147, 2, 1>>, <<\h014A, \h0176, 2, 1>>, <<\h0178, \h0178, 1, -121>>,
       <<\h0179, \h017D, 2, 1>>, <<\h0181, \h0181, 1, 210>>, <<\h0182, \h0184, 2, 1>>,
       <<\h0186, \h0186, 1, 206>>, <<\h0187, \h0187, 1, 1>>, <<\h0189, \h018A, 1, 205>>,
       <<\h018B, \h018B, 1, 1>>, <<\h018E, \h018E, 1, 79>>, <<\h018F, \h018F, 1, 202>>,
       <<\h0190, \h0190, 1, 203>>, <<\h0191, \h0191, 1, 1>>, <<\h0193, \h0193, 1, 205>>,
       <<\h0194, \h0194, 1, 207>>, <<\h0196, \h0196, 1, 211>>, <<\h0197, \h0197, 1, 209>>,
       <<\h0198, \h0198, 1, 1>>, <<\h019C, \h019C, 1, 211>>, <<\h019D, \h019D, 1, 213>>,
       <<\h019F, \h019F, 1, 214>>, <<\h01A0, \h01A4, 2, 1>>, <<\h01A6, \h01A6, 1, 218>>,
       <<\h01A7, \h01A7, 1, 1>>, <<\h01A9, \h01A9, 1, 218>>, <<\h01AC, \h01AC, 1, 1>>,
       <<\h01AE, \h01AE, 1, 218>>, <<\h01AF, \h01AF, 1, 1>>, <<\h01B1, \h01B2, 1, 217>>,
       <<\h01B3, \h01B5, 2, 1>>, <<\h01B7, \h01B7, 1, 219>>, <<\h01B8, \h01B8, 1, 1>>,
       <<\h01BC, \h01BC, 1, 1>>, <<\h01C4, \h01C4, 1, 2>>, <<\h01C5, \h01C5, 1, 1>>,
       <<\h01C7, \h01C7, 1, 2>>, <<\h01C8, \h01C8, 1, 1>>, <<\h01CA, \h01CA, 1, 2>>,
       <<\h01CB, \h01DB, 2, 1>>, <<\h01DE, \h01EE, 2, 1>>, <<\h01F1, \h01F1, 1, 2>>,
       <<\h01F2, \h01F4, 2, 1>>, <<\h01F6, \h01F6, 1, -97>>, <<\h01F7, \h01F7, 1, -56>>,
       <<\h01F8, \h021E, 2, 1>>, <<\h0220, \h0220, 1, -130>>, <<\h0222, \h0232, 2, 1>>,
       <<\h023A, \h023A, 1, 10795>>, <<\h023B, \h023B, 1, 1>>, <<\h023D, \h023D, 1, -163>>,
       <<\h023E, \h023E, 1, 10792>>, <<\h0241, \h0241, 1, 1>>, <<\h0243, \h0243, 1, -195>>,
       <<\h0244, \h0244, 1, 69>>, <<\h0245, \h0245, 1, 71>>, <<\h0246, \h024E, 2, 1>>,
       <<\h0370, \h0372, 2, 1>>, <<\h0376, \h0376, 1, 1>>, <<\h0386, \h0386, 1, 38>>,
       <<\h0388, \h038A, 1, 37>>, <<\h038C, \h038C, 1, 64>>, <<\h038E, \h038F, 1, 63>>,
       <<\h0391, \h03A1, 1, 32>>, <<\h03A3, \h03AB, 1, 32>>, <<\h03CF, \h03CF, 1, 8>>,
       <<\h03D8, \h03EE, 2, 1>>, <<\h03F4, \h03F4, 1, -60>>, <<\h03F7, \h03F7, 1, 1>>,
       <<\h03F9, \h03F9, 1, -7>>, <<\h03FA, \h03FA, 1, 1>>, <<\h03FD, \h03FF, 1, -130>>,
       <<\h0400, \h040F, 1, 80>>, <<\h0410, \h042F, 1, 32>>, <<\h0460, \h0480, 2, 1>>,
       <<\h048A, \h04BE, 2, 1>>, <<\h04C0, \h04C0, 1, 15>>, <<\h04C1, \h04CD, 2, 1>>,
       <<\h04D0, \h0524, 2, 1>>, <<\h0531, \h0556, 1, 48>>, <<\h10A0, \h10C5, 1, 7264>>,
       <<\h1E00, \h1E94, 2, 1>>, <<\h1E9E, \h1E9E, 1, -7615>>, <<\h1EA0, \h1EFE, 2, 1>>,
       <<\h1F08, \h1F0F, 1, -8>>, <<\h1F18, \h1F1D, 1, -8>>, <<\h1F28, \h1F2F, 1, -8>>,
       <<\h1F38, \h1F3F, 1, -8>>, <<\h1F48, \h1F4D, 1, -8>>, <<\h1F59, \h1F5F, 2, -8>>,
       <<\h1F68, \h1F6F, 1, -8>>, <<\h1F88, \h1F8F, 1, -8>>, <<\h1F98, \h1F9F, 1, -8>>,
       <<\h1FA8, \h1FAF, 1, -8>>, <<\h1FB8, \h1FB9, 1, -8>>, <<\h1FBA, \h1FBB, 1, -74>>,
       <<\h1FBC, \h1FBC, 1, -9>>, <<\h1FC8, \h1FCB, 1, -86>>, <<\h1FCC, \h1FCC, 1, -9>>,
       <<\h1FD8, \h1FD9, 1, -8>>, <<\h1FDA, \h1FDB, 1, -100>>, <<\h1FE8, \h1FE9, 1, -8>>,
       <<\h1FEA, \h1FEB, 1, -112>>, <<\h1FEC, \h1FEC, 1, -7>>, <<\h1FF8, \h1FF9, 1, -128>>,
       <<\h1FFA, \h1FFB, 1, -126>>, <<\h1FFC, \h1FFC, 1, -9>>, <<\h2126, \h2126, 1, -7517>>,
       <<\h212A, \h212A, 1, -8383>>, <<\h212B, \h212B, 1, -8262>>, <<\h2132, \h2132, 1, 28>>,
       <<\h2160, \h216F, 1, 16>>, <<\h2183, \h2183, 1, 1>>, <<\h24B6, \h24CF, 1, 26>>,
       <<\h2C00, \h2C2E, 1, 48>>, <<\h2C60, \h2C60, 1, 1>>, <<\h2C62, \h2C62, 1, -10743>>,
       <<\h2C63, \h2C63, 1, -3814>>, <<\h2C64, \h2C64, 1, -10727>>, <<\h2C67, \h2C6B, 2, 1>>,
       <<\h2C6D, \h2C6D, 1, -10780>>, <<\h2C6E, \h2C6E, 1, -10749>>, <<\h2C6F, \h2C6F, 1, -10783>>,
       <<\h2C70, \h2C70, 1, -10782>>, <<\h2C72, \h2C72, 1, 1>>, <<\h2C75, \h2C75, 1, 1>>,
       <<\h2C7E, \h2C7F, 1, -10815>>, <<\h2C80, \h2CE2, 2, 1>>, <<\h2CEB, \h2CED, 2, 1>>,
       <<\hA640, \hA65E, 2, 1>>, <<\hA662, \hA66C, 2, 1>>, <<\hA680, \hA696, 2, 1>>,
       <<\hA722, \hA72E, 2, 1>>, <<\hA732, \hA76E, 2, 1>>, <<\hA779, \hA77B, 2, 1>>,
       <<\hA77D, \hA77D, 1, -35332>>, <<\hA77E, \hA786, 2, 1>>, <<\hA78B, \hA78B, 1, 1>>,
       <<\hFF21, \hFF3A, 1, 32>>, <<\h10400, \h10427, 1, 40>> >>

\* The mapping a table of runs gives: character to string.
MapOfRuns(runs) ==
    LET pairs == UNION { {<<Chr(n), <<Chr(n + runs[r][4])>> >> :
                            n \in RunSet(runs[r][1], runs[r][2], runs[r][3])} :
                         r \in DOMAIN runs }
    IN  [c \in {p[1] : p \in pairs} |-> (CHOOSE p \in pairs : p[1] = c)[2]]

\* What str.lower() of a Python 3 makes of a character it changes: the
\* characters of LowerRuns, and U+0130, the one character that becomes two.
LowerMap == [c \in {"U+0130"} |-> <<"i", "U+0307">>] @@ MapOfRuns(LowerRuns)

\* What unicode.lower() of a Python 2 makes of a character it changes.
LowerMapPython2 == MapOfRuns(LowerRunsPython2)

\* The case table of the interpreter.
CaseTable == IF python3 THEN LowerMap ELSE LowerMapPython2

\* c.lower() for the one-character string c.
LowerChar(c) == IF c \in DOMAIN CaseTable THEN CaseTable[c] ELSE <<c>>

\* The cased characters, as runs <<first, last>>.  The ones that are
\* case-ignorable as well are left out: FinalSigma asks whether a character
\* is cased only when it is not case-ignorable.
CasedRuns ==
    << <<\h0041, \h005A>>, <<\h0061, \h007A>>, <<\h00AA, \h00AA>>, <<\h00B5, \h00B5>>,
      <<\h00BA, \h00BA>>, <<\h00C0, \h00D6>>, <<\h00D8, \h00F6>>, <<\h00F8, \h01BA>>,
      <<\h01BC, \h01BF>>, <<\h01C4, \h0293>>, <<\h0295, \h02AF>>, <<\h0370, \h0373>>,
      <<\h0376, \h0377>>, <<\h037B, \h037D>>, <<\h037F, \h037F>>, <<\h0386, \h0386>>,
      <<\h0388, \h038A>>, <<\h038C, \h038C>>, <<\h038E, \h03A1>>, <<\h03A3, \h03F5>>,
      <<\h03F7, \h0481>>, <<\h048A, \h052F>>, <<\h0531, \h0556>>, <<\h0560, \h0588>>,
      <<\h10A0, \h10C5>>, <<\h10C7, \h10C7>>, <<\h10CD, \h10CD>>, <<\h10D0, \h10FA>>,
      <<\h10FD, \h10FF>>, <<\h13A0, \h13F5>>, <<\h13F8, \h13FD>>, <<\h1C80, \h1C88>>,
      <<\h1C90, \h1CBA>>, <<\h1CBD, \h1CBF>>, <<\h1D00, \h1D2B>>, <<\h1D6B, \h1D77>>,
      <<\h1D79, \h1D9A>>, <<\h1E00, \h1F15>>, <<\h1F18, \h1F1D>>, <<\h1F20, \h1F45>>,
      <<\h1F48, \h1F4D>>, <<\h1F50, \h1F57>>, <<\h1F59, \h1F59>>, <<\h1F5B, \h1F5B>>,
      <<\h1F5D, \h1F5D>>, <<\h1F5F, \h1F7D>>, <<\h1F80, \h1FB4>>, <<\h1FB6, \h1FBC>>,
      <<\h1FBE, \h1FBE>>, <<\h1FC2, \h1FC4>>, <<\h1FC6, \h1FCC>>, <<\h1FD0, \h1FD3>>,
      <<\h1FD6, \h1FDB>>, <<\h1FE0, \h1FEC>>, <<\h1FF2, \h1FF4>>, <<\h1FF6, \h1FFC>>,
      <<\h2102, \h2102>>, <<\h2107, \h2107>>, <<\h210A, \h2113>>, <<\h2115, \h2115>>,
      <<\h2119, \h211D>>, <<\h2124, \h2124>>, <<\h2126, \h2126>>, <<\h2128, \h2128>>,
      <<\h212A, \h212D>>, <<\h212F, \h2134>>, <<\h2139, \h2139>>, <<\h213C, \h213F>>,
      <<\h2145, \h2149>>, <<\h214E, \h214E>>, <<\h2160, \h217F>>, <<\h2183, \h2184>>,
      <<\h24B6, \h24E9>>, <<\h2C00, \h2C7B>>, <<\h2C7E, \h2CE4>>, <<\h2CEB, \h2CEE>>,
      <<\h2CF2, \h2CF3>>, <<\h2D00, \h2D25>>, <<\h2D27, \h2D27>>, <<\h2D2D, \h2D2D>>,
      <<\hA640, \hA66D>>, <<\hA680, \hA69B>>, <<\hA722, \hA76F>>, <<\hA771, \hA787>>,
      <<\hA78B, \hA78E>>, <<\hA790, \hA7CA>>, <<\hA7D0, \hA7D1>>, <<\hA7D3, \hA7D3>>,
      <<\hA7D5, \hA7D9>>, <<\hA7F5, \hA7F6>>, <<\hA7FA, \hA7FA>>, <<\hAB30, \hAB5A>>,
      <<\hAB60, \hAB68>>, <<\hAB70, \hABBF>>, <<\hFB00, \hFB06>>, <<\hFB13, \hFB17>>,
      <<\hFF21, \hFF3A>>, <<\hFF41, \hFF5A>>, <<\h10400, \h1044F>>, <<\h104B0, \h104D3>>,
      <<\h104D8, \h104FB>>, <<\h10570, \h1057A>>, <<\h1057C, \h1058A>>, <<\h1058C, \h10592>>,
      <<\h10594, \h10595>>, <<\h10597, \h105A1>>, <<\h105A3, \h105B1>>, <<\h105B3, \h105B9>>,
      <<\h105BB, \h105BC>>, <<\h10C80, \h10CB2>>, <<\h10CC0, \h10CF2>>, <<\h118A0, \h118DF>>,
      <<\h16E40, \h16E7F>>, <<\h1D400, \h1D454>>, <<\h1D456, \h1D49C>>, <<\h1D49E, \h1D49F>>,
      <<\h1D4A2, \h1D4A2>>, <<\h1D4A5, \h1D4A6>>, <<\h1D4A9, \h1D4AC>>, <<\h1D4AE, \h1D4B9>>,
      <<\h1D4BB, \h1D4BB>>, <<\h1D4BD, \h1D4C3>>, <<\h1D4C5, \h1D505>>, <<\h1D507, \h1D50A>>,
      <<\h1D50D, \h1D514>>, <<\h1D516, \h1D51C>>, <<\h1D51E, \h1D539>>, <<\h1D53B, \h1D53E>>,
      <<\h1D540, \h1D544>>, <<\h1D546, \h1D546>>, <<\h1D54A, \h1D550>>, <<\h1D552, \h1D6A5>>,
      <<\h1D6A8, \h1D6C0>>, <<\h1D6C2, \h1D6DA>>, <<\h1D6DC, \h1D6FA>>, <<\h1D6FC, \h1D714>>,
      <<\h1D716, \h1D734>>, <<\h1D736, \h1D74E>>, <<\h1D750, \h1D76E>>, <<\h1D770, \h1D788>>,
      <<\h1D78A, \h1D7A8>>, <<\h1D7AA, \h1D7C2>>, <<\h1D7C4, \h1D7CB>>, <<\h1DF00, \h1DF09>>,
      <<\h1DF0B, \h1DF1E>>, <<\h1E900, \h1E943>>, <<\h1F130, \h1F149>>, <<\h1F150, \h1F169>>,
      <<\h1F170, \h1F189>> >>

\* The case-ignorable characters, as runs <<first, last>>.
CaseIgnorableRuns ==
    << <<\h0027, \h0027>>, <<\h002E, \h002E>>, <<\h003A, \h003A>>, <<\h005E, \h005E>>,
      <<\h0060, \h0060>>, <<\h00A8, \h00A8>>, <<\h00AD, \h00AD>>, <<\h00AF, \h00AF>>,
      <<\h00B4, \h00B4>>, <<\h00B7, \h00B8>>, <<\h02B0, \h036F>>, <<\h0374, \h0375>>,
      <<\h037A, \h037A>>, <<\h0384, \h0385>>, <<\h0387, \h0387>>, <<\h0483, \h0489>>,
      <<\h0559, \h0559>>, <<\h055F, \h055F>>, <<\h0591, \h05BD>>, <<\h05BF, \h05BF>>,
      <<\h05C1, \h05C2>>, <<\h05C4, \h05C5>>, <<\h05C7, \h05C7>>, <<\h05F4, \h05F4>>,
      <<\h0600, \h0605>>, <<\h0610, \h061A>>, <<\h061C, \h061C>>, <<\h0640, \h0640>>,
      <<\h064B, \h065F>>, <<\h0670, \h0670>>, <<\h06D6, \h06DD>>, <<\h06DF, \h06E8>>,
      <<\h06EA, \h06ED>>, <<\h070F, \h070F>>, <<\h0711, \h0711>>, <<\h0730, \h074A>>,
      <<\h07A6, \h07B0>>, <<\h07EB, \h07F5>>, <<\h07FA, \h07FA>>, <<\h07FD, \h07FD>>,
      <<\h0816, \h082D>>, <<\h0859, \h085B>>, <<\h0888, \h0888>>, <<\h0890, \h0891>>,
      <<\h0898, \h089F>>, <<\h08C9, \h0902>>, <<\h093A, \h093A>>, <<\h093C, \h093C>>,
      <<\h0941, \h0948>>, <<\h094D, \h094D>>, <<\h0951, \h0957>>, <<\h0962, \h0963>>,
      <<\h0971, \h0971>>, <<\h0981, \h0981>>, <<\h09BC, \h09BC>>, <<\h09C1, \h09C4>>,
      <<\h09CD, \h09CD>>, <<\h09E2, \h09E3>>, <<\h09FE, \h09FE>>, <<\h0A01, \h0A02>>,
      <<\h0A3C, \h0A3C>>, <<\h0A41, \h0A42>>, <<\h0A47, \h0A48>>, <<\h0A4B, \h0A4D>>,
      <<\h0A51, \h0A51>>, <<\h0A70, \h0A71>>, <<\h0A75, \h0A75>>, <<\h0A81, \h0A82>>,
      <<\h0ABC, \h0ABC>>, <<\h0AC1, \h0AC5>>, <<\h0AC7, \h0AC8>>, <<\h0ACD, \h0ACD>>,
      <<\h0AE2, \h0AE3>>, <<\h0AFA, \h0AFF>>, <<\h0B01, \h0B01>>, <<\h0B3C, \h0B3C>>,
      <<\h0B3F, \h0B3F>>, <<\h0B41, \h0B44>>, <<\h0B4D, \h0B4D>>, <<\h0B55, \h0B56>>,
      <<\h0B62, \h0B63>>, <<\h0B82, \h0B82>>, <<\h0BC0, \h0BC0>>, <<\h0BCD, \h0BCD>>,
      <<\h0C00, \h0C00>>, <<\h0C04, \h0C04>>, <<\h0C3C, \h0C3C>>, <<\h0C3E, \h0C40>>,
      <<\h0C46, \h0C48>>, <<\h0C4A, \h0C4D>>, <<\h0C55, \h0C56>>, <<\h0C62, \h0C63>>,
      <<\h0C81, \h0C81>>, <<\h0CBC, \h0CBC>>, <<\h0CBF, \h0CBF>>, <<\h0CC6, \h0CC6>>,
      <<\h0CCC, \h0CCD>>, <<\h0CE2, \h0CE3>>, <<\h0D00, \h0D01>>, <<\h0D3B, \h0D3C>>,
      <<\h0D41, \h0D44>>, <<\h0D4D, \h0D4D>>, <<\h0D62, \h0D63>>, <<\h0D81, \h0D81>>,
      <<\h0DCA, \h0DCA>>, <<\h0DD2, \h0DD4>>, <<\h0DD6, \h0DD6>>, <<\h0E31, \h0E31>>,
      <<\h0E34, \h0E3A>>, <<\h0E46, \h0E4E>>, <<\h0EB1, \h0EB1>>, <<\h0EB4, \h0EBC>>,
      <<\h0EC6, \h0EC6>>, <<\h0EC8, \h0ECD>>, <<\h0F18, \h0F19>>, <<\h0F35, \h0F35>>,
      <<\h0F37, \h0F37>>, <<\h0F39, \h0F39>>, <<\h0F71, \h0F7E>>, <<\h0F80, \h0F84>>,
      <<\h0F86, \h0F87>>, <<\h0F8D, \h0F97>>, <<\h0F99, \h0FBC>>, <<\h0FC6, \h0FC6>>,
      <<\h102D, \h1030>>, <<\h1032, \h1037>>, <<\h1039, \h103A>>, <<\h103D, \h103E>>,
      <<\h1058, \h1059>>, <<\h105E, \h1060>>, <<\h1071, \h1074>>, <<\h1082, \h1082>>,
      <<\h1085, \h1086>>, <<\h108D, \h108D>>, <<\h109D, \h109D>>, <<\h10FC, \h10FC>>,
      <<\h135D, \h135F>>, <<\h1712, \h1714>>, <<\h1732, \h1733>>, <<\h1752, \h1753>>,
      <<\h1772, \h1773>>, <<\h17B4, \h17B5>>, <<\h17B7, \h17BD>>, <<\h17C6, \h17C6>>,
      <<\h17C9, \h17D3>>, <<\h17D7, \h17D7>>, <<\h17DD, \h17DD>>, <<\h180B, \h180F>>,
      <<\h1843, \h1843>>, <<\h1885, \h1886>>, <<\h18A9, \h18A9>>, <<\h1920, \h1922>>,
      <<\h1927, \h1928>>, <<\h1932, \h1932>>, <<\h1939, \h193B>>, <<\h1A17, \h1A18>>,
      <<\h1A1B, \h1A1B>>, <<\h1A56, \h1A56>>, <<\h1A58, \h1A5E>>, <<\h1A60, \h1A60>>,
      <<\h1A62, \h1A62>>, <<\h1A65, \h1A6C>>, <<\h1A73, \h1A7C>>, <<\h1A7F, \h1A7F>>,
      <<\h1AA7, \h1AA7>>, <<\h1AB0, \h1ACE>>, <<\h1B00, \h1B03>>, <<\h1B34, \h1B34>>,
      <<\h1B36, \h1B3A>>, <<\h1B3C, \h1B3C>>, <<\h1B42, \h1B42>>, <<\h1B6B, \h1B73>>,
      <<\h1B80, \h1B81>>, <<\h1BA2, \h1BA5>>, <<\h1BA8, \h1BA9>>, <<\h1BAB, \h1BAD>>,
      <<\h1BE6, \h1BE6>>, <<\h1BE8, \h1BE9>>, <<\h1BED, \h1BED>>, <<\h1BEF, \h1BF1>>,
      <<\h1C2C, \h1C33>>, <<\h1C36, \h1C37>>, <<\h1C78, \h1C7D>>, <<\h1CD0, \h1CD2>>,
      <<\h1CD4, \h1CE0>>, <<\h1CE2, \h1CE8>>, <<\h1CED, \h1CED>>, <<\h1CF4, \h1CF4>>,
      <<\h1CF8, \h1CF9>>, <<\h1D2C, \h1D6A>>, <<\h1D78, \h1D78>>, <<\h1D9B, \h1DFF>>,
      <<\h1FBD, \h1FBD>>, <<\h1FBF, \h1FC1>>, <<\h1FCD, \h1FCF>>, <<\h1FDD, \h1FDF>>,
      <<\h1FED, \h1FEF>>, <<\h1FFD, \h1FFE>>, <<\h200B, \h200F>>, <<\h2018, \h2019>>,
      <<\h2024, \h2024>>, <<\h2027, \h2027>>, <<\h202A, \h202E>>, <<\h2060, \h2064>>,
      <<\h2066, \h206F>>, <<\h2071, \h2071>>, <<\h207F, \h207F>>, <<\h2090, \h209C>>,
      <<\h20D0, \h20F0>>, <<\h2C7C, \h2C7D>>, <<\h2CEF, \h2CF1>>, <<\h2D6F, \h2D6F>>,
      <<\h2D7F, \h2D7F>>, <<\h2DE0, \h2DFF>>, <<\h2E2F, \h2E2F>>, <<\h3005, \h3005>>,
      <<\h302A, \h302D>>, <<\h3031, \h3035>>, <<\h303B, \h303B>>, <<\h3099, \h309E>>,
      <<\h30FC, \h30FE>>, <<\hA015, \hA015>>, <<\hA4F8, \hA4FD>>, <<\hA60C, \hA60C>>,
      <<\hA66F, \hA672>>, <<\hA674, \hA67D>>, <<\hA67F, \hA67F>>, <<\hA69C, \hA69F>>,
      <<\hA6F0, \hA6F1>>, <<\hA700, \hA721>>, <<\hA770, \hA770>>, <<\hA788, \hA78A>>,
      <<\hA7F2, \hA7F4>>, <<\hA7F8, \hA7F9>>, <<\hA802, \hA802>>, <<\hA806, \hA806>>,
      <<\hA80B, \hA80B>>, <<\hA825, \hA826>>, <<\hA82C, \hA82C>>, <<\hA8C4, \hA8C5>>,
      <<\hA8E0, \hA8F1>>, <<\hA8FF, \hA8FF>>, <<\hA926, \hA92D>>, <<\hA947, \hA951>>,
      <<\hA980, \hA982>>, <<\hA9B3, \hA9B3>>, <<\hA9B6, \hA9B9>>, <<\hA9BC, \hA9BD>>,
      <<\hA9CF, \hA9CF>>, <<\hA9E5, \hA9E6>>, <<\hAA29, \hAA2E>>, <<\hAA31, \hAA32>>,
      <<\hAA35, \hAA36>>, <<\hAA43, \hAA43>>, <<\hAA4C, \hAA4C>>, <<\hAA70, \hAA70>>,
      <<\hAA7C, \hAA7C>>, <<\hAAB0, \hAAB0>>, <<\hAAB2, \hAAB4>>, <<\hAAB7, \hAAB8>>,
      <<\hAABE, \hAABF>>, <<\hAAC1, \hAAC1>>, <<\hAADD, \hAADD>>, <<\hAAEC, \hAAED>>,
      <<\hAAF3, \hAAF4>>, <<\hAAF6, \hAAF6>>, <<\hAB5B, \hAB5F>>, <<\hAB69, \hAB6B>>,
      <<\hABE5, \hABE5>>, <<\hABE8, \hABE8>>, <<\hABED, \hABED>>, <<\hFB1E, \hFB1E>>,
      <<\hFBB2, \hFBC2>>, <<\hFE00, \hFE0F>>, <<\hFE13, \hFE13>>, <<\hFE20, \hFE2F>>,
      <<\hFE52, \hFE52>>, <<\hFE55, \hFE55>>, <<\hFEFF, \hFEFF>>, <<\hFF07, \hFF07>>,
      <<\hFF0E, \hFF0E>>, <<\hFF1A, \hFF1A>>, <<\hFF3E, \hFF3E>>, <<\hFF40, \hFF40>>,
      <<\hFF70, \hFF70>>, <<\hFF9E, \hFF9F>>, <<\hFFE3, \hFFE3>>, <<\hFFF9, \hFFFB>>,
      <<\h101FD, \h101FD>>, <<\h102E0, \h102E0>>, <<\h10376, \h1037A>>, <<\h10780, \h10785>>,
      <<\h10787, \h107B0>>, <<\h107B2, \h107BA>>, <<\h10A01, \h10A03>>, <<\h10A05, \h10A06>>,
      <<\h10A0C, \h10A0F>>, <<\h10A38, \h10A3A>>, <<\h10A3F, \h10A3F>>, <<\h10AE5, \h10AE6>>,
      <<\h10D24, \h10D27>>, <<\h10EAB, \h10EAC>>, <<\h10F46, \h10F50>>, <<\h10F82, \h10F85>>,
      <<\h11001, \h11001>>, <<\h11038, \h11046>>, <<\h11070, \h11070>>, <<\h11073, \h11074>>,
      <<\h1107F, \h11081>>, <<\h110B3, \h110B6>>, <<\h110B9, \h110BA>>, <<\h110BD, \h110BD>>,
      <<\h110C2, \h110C2>>, <<\h110CD, \h110CD>>, <<\h11100, \h11102>>, <<\h11127, \h1112B>>,
      <<\h1112D, \h11134>>, <<\h11173, \h11173>>, <<\h11180, \h11181>>, <<\h111B6, \h111BE>>,
      <<\h111C9, \h111CC>>, <<\h111CF, \h111CF>>, <<\h1122F, \h11231>>, <<\h11234, \h11234>>,
      <<\h11236, \h11237>>, <<\h1123E, \h1123E>>, <<\h112DF, \h112DF>>, <<\h112E3, \h112EA>>,
      <<\h11300, \h11301>>, <<\h1133B, \h1133C>>, <<\h11340, \h11340>>, <<\h11366, \h1136C>>,
      <<\h11370, \h11374>>, <<\h11438, \h1143F>>, <<\h11442, \h11444>>, <<\h11446, \h11446>>,
      <<\h1145E, \h1145E>>, <<\h114B3, \h114B8>>, <<\h114BA, \h114BA>>, <<\h114BF, \h114C0>>,
      <<\h114C2, \h114C3>>, <<\h115B2, \h115B5>>, <<\h115BC, \h115BD>>, <<\h115BF, \h115C0>>,
      <<\h115DC, \h115DD>>, <<\h11633, \h1163A>>, <<\h1163D, \h1163D>>, <<\h1163F, \h11640>>,
      <<\h116AB, \h116AB>>, <<\h116AD, \h116AD>>, <<\h116B0, \h116B5>>, <<\h116B7, \h116B7>>,
      <<\h1171D, \h1171F>>, <<\h11722, \h11725>>, <<\h11727, \h1172B>>, <<\h1182F, \h11837>>,
      <<\h11839, \h1183A>>, <<\h1193B, \h1193C>>, <<\h1193E, \h1193E>>, <<\h11943, \h11943>>,
      <<\h119D4, \h119D7>>, <<\h119DA, \h119DB>>, <<\h119E0, \h119E0>>, <<\h11A01, \h11A0A>>,
      <<\h11A33, \h11A38>>, <<\h11A3B, \h11A3E>>, <<\h11A47, \h11A47>>, <<\h11A51, \h11A56>>,
      <<\h11A59, \h11A5B>>, <<\h11A8A, \h11A96>>, <<\h11A98, \h11A99>>, <<\h11C30, \h11C36>>,
      <<\h11C38, \h11C3D>>, <<\h11C3F, \h11C3F>>, <<\h11C92, \h11CA7>>, <<\h11CAA, \h11CB0>>,
      <<\h11CB2, \h11CB3>>, <<\h11CB5, \h11CB6>>, <<\h11D31, \h11D36>>, <<\h11D3A, \h11D3A>>,
      <<\h11D3C, \h11D3D>>, <<\h11D3F, \h11D45>>, <<\h11D47, \h11D47>>, <<\h11D90, \h11D91>>,
      <<\h11D95, \h11D95>>, <<\h11D97, \h11D97>>, <<\h11EF3, \h11EF4>>, <<\h13430, \h13438>>,
      <<\h16AF0, \h16AF4>>, <<\h16B30, \h16B36>>, <<\h16B40, \h16B43>>, <<\h16F4F, \h16F4F>>,
      <<\h16F8F, \h16F9F>>, <<\h16FE0, \h16FE1>>, <<\h16FE3, \h16FE4>>, <<\h1AFF0, \h1AFF3>>,
      <<\h1AFF5, \h1AFFB>>, <<\h1AFFD, \h1AFFE>>, <<\h1BC9D, \h1BC9E>>, <<\h1BCA0, \h1BCA3>>,
      <<\h1CF00, \h1CF2D>>, <<\h1CF30, \h1CF46>>, <<\h1D167, \h1D169>>, <<\h1D173, \h1D182>>,
      <<\h1D185, \h1D18B>>, <<\h1D1AA, \h1D1AD>>, <<\h1D242, \h1D244>>, <<\h1DA00, \h1DA36>>,
      <<\h1DA3B, \h1DA6C>>, <<\h1DA75, \h1DA75>>, <<\h1DA84, \h1DA84>>, <<\h1DA9B, \h1DA9F>>,
      <<\h1DAA1, \h1DAAF>>, <<\h1E000, \h1E006>>, <<\h1E008, \h1E018>>, <<\h1E01B, \h1E021>>,
      <<\h1E023, \h1E024>>, <<\h1E026, \h1E02A>>, <<\h1E130, \h1E13D>>, <<\h1E2AE, \h1E2AE>>,
      <<\h1E2EC, \h1E2EF>>, <<\h1E8D0, \h1E8D6>>, <<\h1E944, \h1E94B>>, <<\h1F3FB, \h1F3FF>>,
      <<\hE0001, \hE0001>>, <<\hE0020, \hE007F>>, <<\hE0100, \hE01EF>> >>

CasedLetters ==
    UNION { {Chr(n) : n \in CasedRuns[r][1]..CasedRuns[r][2]} : r \in DOMAIN CasedRuns }

CaseIgnorable ==
    UNION { {Chr(n) : n \in CaseIgnorableRuns[r][1]..CaseIgnorableRuns[r][2]} :
            r \in DOMAIN CaseIgnorableRuns }

\* Whether the capital sigma at word[i] becomes the final small sigma U+03C2:
\* the nearest character before it that is not case-ignorable is a cased
\* one, and the nearest such character after it, if any, is not.
FinalSigma(word, i) ==
    LET before == {j \in 1..(i - 1) : word[j] \notin CaseIgnorable}
        after == {j \in (i + 1)..Len(word) : word[j] \notin CaseIgnorable}
        last == CHOOSE j \in before : \A x \in before : x <= j
        next == CHOOSE j \in after : \A x \in after : j <= x
    IN  /\ before # {} /\ word[last] \in CasedLetters
        /\ (after = {} \/ word[next] \notin CasedLetters)

\* word.lower(): a Python 3 lower-cases a capital sigma by its place in the
\* word, a Python 2 every character on its own.
clean_corpus_word(word) ==
    Flatten([i \in 1..Len(word) |->
                IF python3 /\ word[i] = "U+03A3"
                THEN <<IF FinalSigma(word, i) THEN "U+03C2" ELSE "U+03C3">>
                ELSE LowerChar(word[i])])

\* tokens_feature: the token list handed to the wrapped function.
Tokens(t) ==
    LET words == Split(clean_edu_text(t))
    IN  [i \in 1..Len(words) |-> clean_corpus_word(words[i])]

word_first(tokens) == IF tokens # <<>> THEN tokens[1] ELSE None
word_last(tokens) == IF tokens # <<>> THEN tokens[Len(tokens)] ELSE None
num_tokens(tokens) == Len(tokens)

(***************************************************************************)
(* Vocabulary dumper: what _dump_vocabulary writes.                        *)
(* A vocabulary (a dict) is the sequence of its items in iteration order,  *)
(* each item <<feat_name, feat_idx>>, no name twice.  The file is the      *)
(* sequence of the characters written.                                     *)
(***************************************************************************)

Digits == <<"0", "1", "2", "3", "4", "5", "6", "7", "8", "9">>

RECURSIVE Str(_)
\* str(n) for an int
Str(n) ==
    IF n < 0 THEN <<"-">> \o Str(-n)
    ELSE IF n < 10 THEN <<Digits[n + 1]>>
    ELSE Str(n \div 10) \o <<Digits[(n % 10) + 1]>>

RECURSIVE InsertByIndex(_, _)
\* Put item into a list ordered by x[1] (the index), after the items whose
\* index is not greater: the order sorted() gives, which is stable.
InsertByIndex(sorted, item) ==
    IF sorted = <<>> THEN <<item>>
    ELSE IF Head(sorted)[2] <= item[2]
         THEN <<Head(sorted)>> \o InsertByIndex(Tail(sorted), item)
         ELSE <<item>> \o sorted

RECURSIVE SortedFrom(_, _)
SortedFrom(items, acc) ==
    IF items = <<>> THEN acc
    ELSE SortedFrom(Tail(items), InsertByIndex(acc, Head(items)))

\* sorted(vocabulary.items(), key=lambda x: x[1])
SortedByIndex(items) == SortedFrom(items, <<>>)

\* line_pattern.format(fn=feat_name, fx=str(feat_idx + 1))
FormatLine(feat_name, feat_idx) ==
    feat_name \o <<"\t">> \o Str(feat_idx + 1) \o <<"\n">>

\* What _dump_vocabulary(vocabulary, f) writes to f.
DumpVocabulary(items) ==
    LET ordered == SortedByIndex(items)
    IN  Flatten([i \in 1..Len(ordered) |-> FormatLine(ordered[i][1], ordered[i][2])])

(***************************************************************************)
(* The corpus: documents, their EDUs and their dependency trees.           *)
(***************************************************************************)

MaxDocs == 2
MaxUnits == 3

Rels == {"elaboration", "attribution"}

\* An EDU of document `key`; num is its position among the leaves.
Edu(key, i) == [doc |-> key, num |-> i]

\* The texts of a document's EDUs, by position (repeating).
EduTexts ==
    << <<"H", "e", "l", "l", "o", " ", "t", "h", "e", "r", "e", ".", "<", "P", ">">>,
       <<",", ",", ",">>,
       <<"\"", "W", "e", "l", "l", ",", " ", "n", "o", ",">>,
       <<"I", "t", " ", "i", "s", ".">> >>

EduText(edu) == EduTexts[((edu.num - 1) % Len(EduTexts)) + 1]

RECURSIVE CharStart(_)
\* edu.text_span().char_start: the EDUs of a document follow one another,
\* one character apart.
CharStart(edu) ==
    IF edu.num = 1 THEN 0
    ELSE CharStart(Edu(edu.doc, edu.num - 1)) + Len(EduText(Edu(edu.doc, edu.num - 1))) + 1

CharEnd(edu) == CharStart(edu) + Len(EduText(edu))

RECURSIVE ReachesRoot(_, _, _)
ReachesRoot(parent, i, fuel) ==
    IF parent[i] = 0 THEN TRUE
    ELSE IF fuel = 0 THEN FALSE
    ELSE ReachesRoot(parent, parent[i], fuel - 1)

\* The shapes of a tree over nodes 1..n: parent[i] = 0 for the root.
TreeShapes(n) ==
    { parent \in [1..n -> 0..n] :
        /\ Cardinality({i \in 1..n : parent[i] = 0}) = 1
        /\ \A i \in 1..n : ReachesRoot(parent, i, n) }

RootOf(parent) == CHOOSE i \in DOMAIN parent : parent[i] = 0

\* The dependency trees over the n EDUs of document `key`: an nltk Tree
\* whose node i is labelled with edu = Edu(key, i) and rel = rel[i]; the
\* root has no relation.
DepTrees(key, n) ==
    UNION { { [key |-> key, parent |-> parent, rel |-> rel] :
                rel \in { r \in [1..n -> Rels \cup {"ROOT"}] :
                            \A i \in 1..n : (r[i] = "ROOT") <=> (parent[i] = 0) } } :
            parent \in TreeShapes(n) }

\* Iterating an nltk Tree yields its direct children, in order.
Children(dtree, i) ==
    LET kids == {c \in DOMAIN dtree.parent : dtree.parent[c] = i}
        pos(c) == Cardinality({d \in kids : d <= c})
    IN  [j \in 1..Cardinality(kids) |-> CHOOSE c \in kids : pos(c) = j]

\* preprocess(inputs, k): the DocumentPlus of a document with n EDUs.
Documents(key) ==
    UNION { { [key |-> key, n |-> n, deptree |-> dtree] : dtree \in DepTrees(key, n) } :
            n \in 1..MaxUnits }

\* current.rsttree.leaves()
Leaves(doc) == [i \in 1..doc.n |-> Edu(doc.key, i)]

(***************************************************************************)
(* simplify_deptree                                                        *)
(***************************************************************************)

Range(seq) == {seq[i] : i \in DOMAIN seq}

\* `for subtree in dtree`: the nodes the outer loop visits.
SubtreesIterated(dtree) == Children(dtree, RootOf(dtree.parent))

\* relations[(src, cnode.edu)] = cnode.rel for every child of every visited
\* subtree.
simplify_deptree(dtree) ==
    LET edges == { <<s, c>> \in Range(SubtreesIterated(dtree)) \X DOMAIN dtree.parent :
                     dtree.parent[c] = s }
        keyOf(e) == <<Edu(dtree.key, e[1]), Edu(dtree.key, e[2])>>
    IN  [p \in {keyOf(e) : e \in edges} |->
            LET e == CHOOSE e \in edges : keyOf(e) = p IN dtree.rel[e[2]]]

(***************************************************************************)
(* Feature functions and key groups.                                       *)
(***************************************************************************)

feat_start(cur, edu) == CharStart(edu)
feat_end(cur, edu) == CharEnd(edu)
\* edu.identifier()
feat_id(cur, edu) == <<edu.doc, edu.num>>

Abs(x) == IF x < 0 THEN -x ELSE x

num_edus_between_signed(cur, edu1, edu2) == (edu2.num - edu1.num) - 1
num_edus_between(cur, edu1, edu2) == Abs(edu2.num - edu1.num) - 1

\* os.path.basename(id_to_path(current.key)): the document's file.
feat_grouping(cur, edu1, edu2) == <<"file", cur.key>>

SingleEduSubgroup_Meta == <<"feat_id", "feat_start", "feat_end">>
SingleEduSubgroup_Text == <<"word_first", "word_last", "num_tokens">>
PairSubGroup_Core == <<"feat_grouping">>
PairSubgroup_Gap == <<"num_edus_between">>

\* key.function(current, edu) of the MagicKey named `name`.
SingleFunction(name, cur, edu) ==
    CASE name = "feat_id" -> feat_id(cur, edu)
      [] name = "feat_start" -> feat_start(cur, edu)
      [] name = "feat_end" -> feat_end(cur, edu)
      [] name = "word_first" -> word_first(Tokens(EduText(edu)))
      [] name = "word_last" -> word_last(Tokens(EduText(edu)))
      [] name = "num_tokens" -> num_tokens(Tokens(EduText(edu)))

\* key.function(current, edu1, edu2) of the MagicKey named `name`.
PairFunction(name, cur, edu1, edu2) ==
    CASE name = "feat_grouping" -> feat_grouping(cur, edu1, edu2)
      [] name = "num_edus_between" -> num_edus_between(cur, edu1, edu2)

\* KeyGroup(description, keys): a dict holding None under every key name.
KeyGroup(keys) == [keys |-> keys, vals |-> [name \in Range(keys) |-> None]]

\* MergedKeyGroup(description, groups): the keys of the groups, in order.
MergedKeyGroup(groups) == [groups |-> groups] @@ KeyGroup(Flatten(groups))

\* KeyGroup.csv_headers / KeyGroup.csv_values
KeyGroup_csv_headers(self) == self.keys
KeyGroup_csv_values(self) == [i \in 1..Len(self.keys) |-> self.vals[self.keys[i]]]

RECURSIVE SingleEduSubgroup_magic_fill(_, _, _, _)
\* for key in self.keys: vec[key.name] = key.function(current, edu)
SingleEduSubgroup_magic_fill(keys, cur, edu, target) ==
    IF keys = <<>> THEN target
    ELSE SingleEduSubgroup_magic_fill(
            Tail(keys), cur, edu,
            [target EXCEPT !.vals[Head(keys)] = SingleFunction(Head(keys), cur, edu)])

SingleEduKeys == MergedKeyGroup(<<SingleEduSubgroup_Meta, SingleEduSubgroup_Text>>)

RECURSIVE SingleEduKeys_fill_from(_, _, _, _)
SingleEduKeys_fill_from(groups, cur, edu, v) ==
    IF groups = <<>> THEN v
    ELSE SingleEduKeys_fill_from(
            Tail(groups), cur, edu,
            SingleEduSubgroup_magic_fill(Head(groups), cur, edu, v))

\* SingleEduKeys.fill(current, edu)
SingleEduKeys_fill(self, cur, edu) ==
    SingleEduKeys_fill_from(self.groups, cur, edu, self)

RECURSIVE PairSubgroup_magic_fill(_, _, _, _, _)
\* for key in self.keys: vec[key.name] = key.function(current, edu1, edu2)
PairSubgroup_magic_fill(keys, cur, edu1, edu2, target) ==
    IF keys = <<>> THEN target
    ELSE PairSubgroup_magic_fill(
            Tail(keys), cur, edu1, edu2,
            [target EXCEPT !.vals[Head(keys)] =
                PairFunction(Head(keys), cur, edu1, edu2)])

PairKeys_always_constructs(cache) ==
    [sf_cache |-> cache,
     edu1 |-> <<"SingleEduKeys", SingleEduKeys>>,
     edu2 |-> <<"SingleEduKeys", SingleEduKeys>>]
        @@ MergedKeyGroup(<<PairSubGroup_Core, PairSubgroup_Gap>>)
\* PairKeys(inputs, sf_cache): without a cache the two unit vectors are
\* fresh SingleEduKeys, with one they are None until fill.
PairKeys(cache) ==
    [sf_cache |-> cache,
     edu1 |-> IF cache = None THEN <<"SingleEduKeys", SingleEduKeys>> ELSE None,
     edu2 |-> IF cache = None THEN <<"SingleEduKeys", SingleEduKeys>> ELSE None]
        @@ MergedKeyGroup(<<PairSubGroup_Core, PairSubgroup_Gap>>)

\* The SingleEduKeys objects that constructing `vec` constructed.
SinglesConstructedBy(v) ==
    (IF v.edu1 = None THEN 0 ELSE 1) + (IF v.edu2 = None THEN 0 ELSE 1)

RECURSIVE PairKeys_fill_from(_, _, _, _, _)
PairKeys_fill_from(groups, cur, edu1, edu2, v) ==
    IF groups = <<>> THEN v
    ELSE PairKeys_fill_from(
            Tail(groups), cur, edu1, edu2,
            PairSubgroup_magic_fill(Head(groups), cur, edu1, edu2, v))

\* self.sf_cache[edu] raises KeyError when edu is no key of the cache.
CacheHit(self, edu) == edu \in DOMAIN self.sf_cache[2]

PairKeys_fill_swapped(self, cur, edu1, edu2) ==
    PairKeys_fill_from(self.groups, cur, edu1, edu2,
        [self EXCEPT !.edu1 = self.sf_cache[2][edu2], !.edu2 = self.sf_cache[2][edu1]])
\* PairKeys.fill(current, edu1, edu2), both lookups succeeding.
PairKeys_fill(self, cur, edu1, edu2) ==
    PairKeys_fill_from(self.groups, cur, edu1, edu2,
        [self EXCEPT !.edu1 = self.sf_cache[2][edu1], !.edu2 = self.sf_cache[2][edu2]])

Suffixed(headers, suffix) == [i \in 1..Len(headers) |-> headers[i] \o suffix]

PairKeys_csv_headers_one_suffix(self, objs) ==
    KeyGroup_csv_headers(self)
        \o Suffixed(KeyGroup_csv_headers(objs[self.edu1]), "_EDU1")
        \o Suffixed(KeyGroup_csv_headers(objs[self.edu2]), "_EDU1")
\* PairKeys.csv_headers(); objs resolves the references edu1 and edu2.
PairKeys_csv_headers(self, objs) ==
    KeyGroup_csv_headers(self)
        \o Suffixed(KeyGroup_csv_headers(objs[self.edu1]), "_EDU1")
        \o Suffixed(KeyGroup_csv_headers(objs[self.edu2]), "_EDU2")

\* PairKeys.csv_values()
PairKeys_csv_values(self, objs) ==
    KeyGroup_csv_values(self)
        \o KeyGroup_csv_values(objs[self.edu1])
        \o KeyGroup_csv_values(objs[self.edu2])

\* ClassKeyGroup(group): the wrapped vector and one key, CLASS.
ClassKeyGroup(group) == [group |-> group] @@ KeyGroup(<<"CLASS">>)
\* ClassKeyGroup.set_class(val)
set_class(self, val) == [self EXCEPT !.vals["CLASS"] = val]

AttachmentClass_symmetric(rels, epair) ==
    epair \in DOMAIN rels \/ <<epair[2], epair[1]>> \in DOMAIN rels
\* epair in relations
AttachmentClass(rels, epair) == epair \in DOMAIN rels

\* relations[epair] if epair in relations else 'UNRELATED'
RelationClass(rels, epair) ==
    IF epair \in DOMAIN rels THEN rels[epair] ELSE "UNRELATED"

IsSelfPair_never(edu1, edu2) == FALSE
\* edu1 == edu2
IsSelfPair(edu1, edu2) == edu1 = edu2

\* itertools.product(edus, edus), as a list
Product(edus) ==
    LET n == Len(edus)
    IN  [p \in 1..(n * n) |-> <<edus[((p - 1) \div n) + 1], edus[((p - 1) % n) + 1]>>]

(***************************************************************************)
(* extract_pair_features: a generator.  pc is where it stands:             *)
(*   "docs"        at `for k in inputs.corpus`                             *)
(*   "cache"       at `for edu in edus`                                    *)
(*   "pairs"       at `for epair in itertools.product(edus, edus)`         *)
(*   "yield_live"  suspended at `yield vec, vec`                           *)
(*   "yield"       suspended at `yield pairs_vec, rels_vec`                *)
(*   "StopIteration", "UnboundLocalError", "KeyError": it has ended        *)
(***************************************************************************)

edus == Leaves(current)

\* The pair the product loop stands at.
epair == Product(edus)[pi]

DriverOff ==
    /\ live = FALSE /\ ndocs = 0 /\ pc = "off" /\ k = 0
    /\ current = None /\ relations = <<>> /\ sf_cache = <<>> /\ heap = <<>>
    /\ ci = 0 /\ pi = 0
    /\ vec = Unbound /\ pairs_vec = Unbound /\ rels_vec = Unbound
    /\ out = None /\ emitted = <<>> /\ single_new = 0 /\ single_fill = <<>>

TextOff == tpc = "off" /\ text = <<>> /\ tfeat = None
VocabOff == vpc = "off" /\ vocabulary = <<>> /\ f = <<>>
GapOff == gpc = "off" /\ gap_u1 = None /\ gap_u2 = None /\ gap = None

\* The call extract_pair_features(inputs, live): nothing runs before the
\* consumer asks for the first record.
DriverInit ==
    /\ live \in BOOLEAN
    /\ ndocs \in 1..MaxDocs
    /\ pc = "docs" /\ k = 0
    /\ current = None /\ relations = <<>> /\ sf_cache = <<>> /\ heap = <<>>
    /\ ci = 0 /\ pi = 0
    /\ vec = Unbound /\ pairs_vec = Unbound /\ rels_vec = Unbound
    /\ out = None /\ emitted = <<>> /\ single_new = 0 /\ single_fill = <<>>

\* Lines 390-397: the next document is taken, preprocessed, its relation
\* table built (corpus mode) and its cache emptied.
StartDocument ==
    /\ pc = "docs" /\ k < ndocs
    /\ \E doc \in Documents(k + 1) :
        /\ current' = doc
        /\ relations' = IF ~live THEN simplify_deptree(doc.deptree) ELSE <<>>
        /\ single_fill' = [e \in Range(Leaves(doc)) |-> 0]
    /\ k' = k + 1
    /\ sf_cache' = <<>> /\ heap' = <<>>
    /\ ci' = 1 /\ pc' = "cache"
    /\ emitted' = <<>> /\ single_new' = 0
    /\ UNCHANGED <<tvars, vvars, gvars, python3, live, ndocs, pi, vec, pairs_vec, rels_vec, out>>

\* Lines 398-400: one EDU's SingleEduKeys is constructed, stored in the
\* cache and filled.
CacheEdu ==
    /\ pc = "cache" /\ ci <= Len(edus)
    /\ LET edu == edus[ci]
           id == <<current.key, single_new + 1>>
       IN  /\ sf_cache' = (edu :> id) @@ sf_cache
           /\ heap' = (id :> SingleEduKeys_fill(SingleEduKeys, current, edu)) @@ heap
           /\ single_fill' = [single_fill EXCEPT ![edu] = @ + 1]
    /\ single_new' = single_new + 1
    /\ ci' = ci + 1
    /\ UNCHANGED <<tvars, vvars, gvars, python3, live, ndocs, pc, k, current, relations, pi, vec, pairs_vec,
                   rels_vec, out, emitted>>

\* The cache loop is exhausted; the product loop starts.
CacheDone ==
    /\ pc = "cache" /\ ci > Len(edus)
    /\ pc' = "pairs" /\ pi' = 1
    /\ UNCHANGED <<tvars, vvars, gvars, python3, live, ndocs, k, current, relations, sf_cache, heap, ci, vec,
                   pairs_vec, rels_vec, out, emitted, single_new, single_fill>>

\* Lines 404-405: `continue` on a pair of an EDU with itself.
SkipSelfPair ==
    /\ pc = "pairs" /\ pi <= Len(Product(edus))
    /\ IsSelfPair(epair[1], epair[2])
    /\ pi' = pi + 1
    /\ UNCHANGED <<tvars, vvars, gvars, python3, live, ndocs, pc, k, current, relations, sf_cache, heap, ci, vec,
                   pairs_vec, rels_vec, out, emitted, single_new, single_fill>>

\* Lines 406-407: vec = PairKeys(inputs, sf_cache=sf_cache), then
\* vec.fill(current, edu1, edu2).
NewPairKeys == PairKeys(<<"dict", sf_cache>>)
FilledPairKeys == PairKeys_fill(NewPairKeys, current, epair[1], epair[2])
LookupsHit == CacheHit(NewPairKeys, epair[1]) /\ CacheHit(NewPairKeys, epair[2])

\* History of a yield: the pair it was for and the tuple yielded.
Emission(record) == [epair |-> epair, record |-> record]

\* Lines 406-410, live mode: the pair vector is built and `yield vec, vec`
\* suspends the generator.
YieldLive ==
    /\ pc = "pairs" /\ pi <= Len(Product(edus))
    /\ ~IsSelfPair(epair[1], epair[2])
    /\ live
    /\ single_new' = single_new + SinglesConstructedBy(NewPairKeys)
    /\ IF LookupsHit
       THEN /\ vec' = FilledPairKeys
            /\ out' = <<vec', vec'>>
            /\ emitted' = Append(emitted, Emission(out'))
            /\ pc' = "yield_live"
       ELSE /\ pc' = "KeyError"
            /\ UNCHANGED <<vec, out, emitted>>
    /\ UNCHANGED <<tvars, vvars, gvars, python3, live, ndocs, k, current, relations, sf_cache, heap, ci, pi,
                   pairs_vec, rels_vec, single_fill>>

\* The consumer asks for the next record after `yield vec, vec`: control
\* reaches line 418, `yield pairs_vec, rels_vec`, which reads two locals.
ResumeLive ==
    /\ pc = "yield_live"
    /\ IF pairs_vec = Unbound \/ rels_vec = Unbound
       THEN /\ pc' = "UnboundLocalError"
            /\ UNCHANGED <<out, emitted>>
       ELSE /\ out' = <<pairs_vec, rels_vec>>
            /\ emitted' = Append(emitted, Emission(out'))
            /\ pc' = "yield"
    /\ UNCHANGED <<tvars, vvars, gvars, python3, live, ndocs, k, current, relations, sf_cache, heap, ci, pi, vec,
                   pairs_vec, rels_vec, single_new, single_fill>>

\* Lines 406-418, corpus mode: the pair vector is built, the two
\* ClassKeyGroups are labelled and `yield pairs_vec, rels_vec` suspends.
YieldCorpus ==
    /\ pc = "pairs" /\ pi <= Len(Product(edus))
    /\ ~IsSelfPair(epair[1], epair[2])
    /\ ~live
    /\ single_new' = single_new + SinglesConstructedBy(NewPairKeys)
    /\ IF LookupsHit
       THEN /\ vec' = FilledPairKeys
            /\ rels_vec' = set_class(ClassKeyGroup(vec'), RelationClass(relations, epair))
            /\ pairs_vec' = set_class(ClassKeyGroup(vec'), AttachmentClass(relations, epair))
            /\ out' = <<pairs_vec', rels_vec'>>
            /\ emitted' = Append(emitted, Emission(out'))
            /\ pc' = "yield"
       ELSE /\ pc' = "KeyError"
            /\ UNCHANGED <<vec, pairs_vec, rels_vec, out, emitted>>
    /\ UNCHANGED <<tvars, vvars, gvars, python3, live, ndocs, k, current, relations, sf_cache, heap, ci, pi,
                   single_fill>>

\* The consumer asks for the next record after line 418: the product loop
\* goes on.
Resume ==
    /\ pc = "yield"
    /\ pc' = "pairs" /\ pi' = pi + 1
    /\ UNCHANGED <<tvars, vvars, gvars, python3, live, ndocs, k, current, relations, sf_cache, heap, ci, vec,
                   pairs_vec, rels_vec, out, emitted, single_new, single_fill>>

\* The product loop is exhausted; back to the document loop.
PairsDone ==
    /\ pc = "pairs" /\ pi > Len(Product(edus))
    /\ pc' = "docs"
    /\ UNCHANGED <<tvars, vvars, gvars, python3, live, ndocs, k, current, relations, sf_cache, heap, ci, pi, vec,
                   pairs_vec, rels_vec, out, emitted, single_new, single_fill>>

\* The corpus is exhausted: the generator returns.
Stop ==
    /\ pc = "docs" /\ k = ndocs
    /\ pc' = "StopIteration"
    /\ UNCHANGED <<tvars, vvars, gvars, python3, live, ndocs, k, current, relations, sf_cache, heap, ci, pi, vec,
                   pairs_vec, rels_vec, out, emitted, single_new, single_fill>>

Init == DriverInit /\ python3 \in BOOLEAN /\ TextOff /\ VocabOff /\ GapOff

Next ==
    \/ StartDocument
    \/ CacheEdu
    \/ CacheDone
    \/ SkipSelfPair
    \/ YieldLive
    \/ ResumeLive
    \/ YieldCorpus
    \/ Resume
    \/ PairsDone
    \/ Stop

Spec == Init /\ [][Next]_vars

(***************************************************************************)
(* The token features of one EDU text, and one vocabulary dump, each as a  *)
(* specification of its own.                                               *)
(***************************************************************************)

MaxTextLen == 4

\* The characters EDU texts are drawn from: the three stripped marks and
\* the characters of <P>, the quote, three separators (space, line feed and
\* the vertical tab U+000B), a lower-case and an upper-case letter and the
\* capital sigma U+03A3.
TextAlphabet == {".", ",", "<", "P", ">", "\"", " ", "\n", "", "a", "U+03A3"}

\* Texts with cased characters above U+007F: one that becomes two
\* characters, ones of Latin-1, Latin Extended-A and Deseret, a titlecase
\* letter and a capital sigma followed by a combining mark, and a Cherokee
\* letter and U+180E, which the two interpreters treat differently.
CaseTexts ==
    { <<"U+0130", "P">>, <<"U+00C9", " ", "U+0100", ".">>, <<"U+10400", "U+00DF">>,
      <<"U+01C5", "U+03A3", "U+0307">>, <<"U+13A0", "U+180E", "a">> }

Texts ==
    UNION {[1..n -> TextAlphabet] : n \in 0..MaxTextLen}
        \cup Range(EduTexts) \cup CaseTexts

TextInit ==
    /\ tpc = "input" /\ text \in Texts /\ tfeat = None
    /\ python3 \in BOOLEAN
    /\ DriverOff /\ VocabOff /\ GapOff

\* word_first, word_last and num_tokens are called on an EDU with this text.
TokenFeatures ==
    /\ tpc = "input"
    /\ tfeat' = [tokens |-> Tokens(text),
                 word_first |-> word_first(Tokens(text)),
                 word_last |-> word_last(Tokens(text)),
                 num_tokens |-> num_tokens(Tokens(text))]
    /\ tpc' = "done"
    /\ UNCHANGED <<text, dvars, vvars, gvars, python3>>

TextNext == TokenFeatures

TextSpec == TextInit /\ [][TextNext]_vars

MaxVocab == 2
MaxIndex == 10

\* Feature names, among them names that hold the separators of the format.
VocabNames == { <<"a">>, <<"b", "c">>, <<"a", "\t", "b">>, <<"a", "\n", "b">> }

\* The dicts of at most MaxVocab entries, as item lists in iteration order.
Vocabularies ==
    { items \in UNION {[1..n -> VocabNames \X (0..MaxIndex)] : n \in 0..MaxVocab} :
        \A i, j \in DOMAIN items : i # j => items[i][1] # items[j][1] }

\* What the file may hold before the call.
OldContent == <<"o", "l", "d", "\n">>

\* The file is new or holds earlier content, and the module runs under
\* either major version of the interpreter (features.py provides for both).
VocabInit ==
    /\ vpc = "input" /\ vocabulary \in Vocabularies
    /\ f \in {<<>>, OldContent} /\ python3 \in BOOLEAN
    /\ DriverOff /\ TextOff /\ GapOff

\* _dump_vocabulary(vocabulary, f) with f a text file object on an empty
\* file.
Dump ==
    /\ vpc = "input" /\ f = <<>>
    /\ f' = f \o DumpVocabulary(vocabulary)
    /\ vpc' = "done"
    /\ UNCHANGED <<vocabulary, python3, dvars, tvars, gvars>>

\* dump_vocabulary(vocabulary, f) with f the path of the file.  open(f, 'wb')
\* empties the file and gives a binary file object.  A Python 2 writes the
\* lines to it; on a Python 3 the first f.write of a str raises TypeError, so
\* the call fails with the file left empty unless the vocabulary has no
\* entry, when nothing is written and the call returns.
dump_vocabulary ==
    /\ vpc = "input"
    /\ IF python3 /\ vocabulary # <<>>
       THEN f' = <<>> /\ vpc' = "TypeError"
       ELSE f' = DumpVocabulary(vocabulary) /\ vpc' = "done"
    /\ UNCHANGED <<vocabulary, python3, dvars, tvars, gvars>>

VocabNext == Dump \/ dump_vocabulary

VocabSpec == VocabInit /\ [][VocabNext]_vars

MaxGapUnits == 8

\* The EDUs of a document of MaxGapUnits EDUs.
GapUnits == {Edu(1, i) : i \in 1..MaxGapUnits}

\* Any two EDUs of the document, the same one twice included.
GapInit ==
    /\ gpc = "input" /\ gap_u1 \in GapUnits /\ gap_u2 \in GapUnits /\ gap = None
    /\ python3 \in BOOLEAN
    /\ DriverOff /\ TextOff /\ VocabOff

\* num_edus_between(current, edu1, edu2) and
\* num_edus_between(current, edu2, edu1); `current` is not used.
GapFeature ==
    /\ gpc = "input"
    /\ gap' = [forward |-> num_edus_between(None, gap_u1, gap_u2),
               backward |-> num_edus_between(None, gap_u2, gap_u1)]
    /\ gpc' = "done"
    /\ UNCHANGED <<gap_u1, gap_u2, dvars, tvars, vvars, python3>>

GapNext == GapFeature

GapSpec == GapInit /\ [][GapNext]_vars

(***************************************************************************)
(* Properties.                                                             *)
(***************************************************************************)

\* The generator has taken a document and finished its cache.
PastCache ==
    pc \in {"pairs", "yield", "yield_live", "UnboundLocalError", "KeyError"}
        \/ (pc \in {"docs", "StopIteration"} /\ k > 0)

\* The product loop of the current document has run to its end.
DocumentDone == pc \in {"docs", "StopIteration"} /\ k > 0

\* The pair vector of a yielded record: the record itself in live mode, the
\* vector the ClassKeyGroup wraps in corpus mode.
VecOf(e) == IF live THEN e.record[1] ELSE e.record[1].group

Emitted(u1, u2) == {i \in DOMAIN emitted : emitted[i].epair = <<u1, u2>>}

\* C1: in corpus mode every record yielded for a document is for an ordered
\* pair of two different EDUs of it, no pair is yielded twice, and when the
\* document's pairs are exhausted exactly one record was yielded for each
\* of the N*(N-1) ordered pairs of distinct EDUs.
C1_PairEnumeration ==
    (~live /\ pc # "off" /\ k > 0) =>
        /\ \A i \in DOMAIN emitted :
            /\ emitted[i].epair[1] \in Range(edus)
            /\ emitted[i].epair[2] \in Range(edus)
            /\ emitted[i].epair[1] # emitted[i].epair[2]
        /\ \A u \in Range(edus) : Emitted(u, u) = {}
        /\ \A u1, u2 \in Range(edus) : Cardinality(Emitted(u1, u2)) <= 1
        /\ DocumentDone =>
            /\ Len(emitted) = current.n * (current.n - 1)
            /\ \A u1, u2 \in Range(edus) :
                u1 # u2 => Cardinality(Emitted(u1, u2)) = 1

C1_Witness ==
    /\ ~live /\ pc = "docs" /\ k = 2
    /\ current.n = 3 /\ Len(emitted) = 6
    /\ Emitted(Edu(2, 1), Edu(2, 3)) # {} /\ Emitted(Edu(2, 3), Edu(2, 1)) # {}

\* C2: in live mode the relation table is empty, every record is (vec, vec),
\* the generator never raises, and a document with N EDUs gives N*(N-1)
\* records.
C2_LiveMode ==
    (live /\ pc # "off") =>
        /\ relations = <<>>
        /\ \A i \in DOMAIN emitted : emitted[i].record[1] = emitted[i].record[2]
        /\ pc \notin {"UnboundLocalError", "KeyError"}
        /\ DocumentDone => Len(emitted) = current.n * (current.n - 1)

\* C3: in corpus mode the attachment copy of the record for (u1, u2) is
\* labelled by whether (u1, u2) is a key of the relation table, and the
\* relation copy by the table's entry, or "UNRELATED" when there is none; so
\* with A->B in the table and B->A not, (A,B) is labelled True and (B,A)
\* False and "UNRELATED".
C3_Labels ==
    (~live /\ pc # "off") =>
        /\ \A i \in DOMAIN emitted :
            LET e == emitted[i]
                att == e.record[1].vals["CLASS"]
                rel == e.record[2].vals["CLASS"]
            IN  /\ att = (e.epair \in DOMAIN relations)
                /\ e.epair \in DOMAIN relations => rel = relations[e.epair]
                /\ e.epair \notin DOMAIN relations => rel = "UNRELATED"
        /\ \A i, j \in DOMAIN emitted :
            ( /\ emitted[i].epair = <<emitted[j].epair[2], emitted[j].epair[1]>>
              /\ emitted[i].epair \in DOMAIN relations
              /\ emitted[j].epair \notin DOMAIN relations )
            => /\ emitted[i].record[1].vals["CLASS"] = TRUE
               /\ emitted[j].record[1].vals["CLASS"] = FALSE
               /\ emitted[j].record[2].vals["CLASS"] = "UNRELATED"

C3_Witness ==
    /\ ~live /\ DocumentDone
    /\ \E i, j \in DOMAIN emitted :
        /\ emitted[i].epair = <<emitted[j].epair[2], emitted[j].epair[1]>>
        /\ emitted[i].epair \in DOMAIN relations
        /\ emitted[j].epair \notin DOMAIN relations
        /\ emitted[i].record[2].vals["CLASS"] = "elaboration"

\* Every edge of the dependency tree: (parent's EDU, child's EDU) -> the
\* child's relation.
TreeEdges(dtree) ==
    { <<Edu(dtree.key, dtree.parent[c]), Edu(dtree.key, c)>> :
        c \in {d \in DOMAIN dtree.parent : dtree.parent[d] # 0} }

\* C4: the table simplify_deptree returns holds, for every node of the tree
\* (the root included) and every direct child of it, the entry
\* (node's EDU, child's EDU) -> child's relation, and nothing else.
C4_AllEdges ==
    (~live /\ pc # "off" /\ k > 0) =>
        /\ DOMAIN relations = TreeEdges(current.deptree)
        /\ \A p \in DOMAIN relations : relations[p] = current.deptree.rel[p[2].num]

\* C5: no cache lookup of PairKeys.fill misses, and the pair vector yielded
\* for (u1, u2) refers to the cache's own entries for u1 and u2: objects of
\* the current document, filled from u1 and from u2.
C5_CacheReferences ==
    pc # "off" =>
        /\ pc # "KeyError"
        /\ \A i \in DOMAIN emitted :
            LET e == emitted[i]
                v == VecOf(e)
            IN  /\ e.epair[1] \in DOMAIN sf_cache /\ e.epair[2] \in DOMAIN sf_cache
                /\ v.edu1 = sf_cache[e.epair[1]]
                /\ v.edu2 = sf_cache[e.epair[2]]
                /\ v.edu1 \in DOMAIN heap /\ v.edu2 \in DOMAIN heap
                /\ v.edu1 # v.edu2
                /\ v.edu1[1] = current.key /\ v.edu2[1] = current.key
                /\ heap[v.edu1].vals["feat_id"] = <<e.epair[1].doc, e.epair[1].num>>
                /\ heap[v.edu2].vals["feat_id"] = <<e.epair[2].doc, e.epair[2].num>>

C5_Witness ==
    /\ pc = "yield" /\ k = 2 /\ current.n = 3
    /\ Len(emitted) = 4
    /\ VecOf(emitted[4]).edu1 = sf_cache[Edu(2, 2)]
    /\ VecOf(emitted[4]).edu2 = sf_cache[Edu(2, 3)]

\* C6: a document with N EDUs has N SingleEduKeys constructed and each EDU
\* filled once, all before its first record is yielded, whatever the number
\* of pairs; constructing and filling a PairKeys with a cache constructs no
\* SingleEduKeys.
C6_SingleFeaturesOnce ==
    /\ (pc = "cache") =>
        /\ emitted = <<>>
        /\ single_new = ci - 1
        /\ \A i \in DOMAIN edus : single_fill[edus[i]] = (IF i < ci THEN 1 ELSE 0)
    /\ (pc # "off" /\ PastCache) =>
        /\ single_new = current.n
        /\ \A u \in Range(edus) : single_fill[u] = 1
        /\ Cardinality(DOMAIN heap) = current.n
    /\ (pc \in {"pairs", "yield", "yield_live"}) =>
        SinglesConstructedBy(NewPairKeys) = 0

C6_Witness ==
    /\ pc = "yield" /\ current.n = 3 /\ Len(emitted) = 6
    /\ single_new = 3 /\ \A u \in Range(edus) : single_fill[u] = 1

NoDuplicates(seq) == \A i, j \in DOMAIN seq : i # j => seq[i] # seq[j]

\* C7: for a filled PairKeys, csv_headers() and csv_values() have the same
\* length and go together position by position: the core key, the gap key,
\* then the unit1 vector's meta and text keys suffixed _EDU1 with unit1's
\* values, then the unit2 vector's suffixed _EDU2 with unit2's values; no
\* header occurs twice.
C7_HeadersAndValues ==
    (pc \in {"yield", "yield_live"}) =>
        LET headers == PairKeys_csv_headers(vec, heap)
            values == PairKeys_csv_values(vec, heap)
            u1 == epair[1]
            u2 == epair[2]
        IN  /\ Len(headers) = Len(values)
            /\ NoDuplicates(headers)
            /\ headers =
                <<"feat_grouping", "num_edus_between",
                  "feat_id_EDU1", "feat_start_EDU1", "feat_end_EDU1",
                  "word_first_EDU1", "word_last_EDU1", "num_tokens_EDU1",
                  "feat_id_EDU2", "feat_start_EDU2", "feat_end_EDU2",
                  "word_first_EDU2", "word_last_EDU2", "num_tokens_EDU2">>
            /\ values =
                <<feat_grouping(current, u1, u2), num_edus_between(current, u1, u2),
                  feat_id(current, u1), feat_start(current, u1), feat_end(current, u1),
                  word_first(Tokens(EduText(u1))), word_last(Tokens(EduText(u1))),
                  num_tokens(Tokens(EduText(u1))),
                  feat_id(current, u2), feat_start(current, u2), feat_end(current, u2),
                  word_first(Tokens(EduText(u2))), word_last(Tokens(EduText(u2))),
                  num_tokens(Tokens(EduText(u2)))>>

C7_Witness ==
    /\ pc = "yield" /\ epair = <<Edu(1, 2), Edu(1, 1)>>
    /\ Len(PairKeys_csv_headers(vec, heap)) = 14
    /\ PairKeys_csv_values(vec, heap)[6] = None
    /\ PairKeys_csv_values(vec, heap)[12] = <<"h", "e", "l", "l", "o">>

\* The EDUs strictly between two EDUs in document order.
Between(u1, u2) ==
    {u \in GapUnits : Min(u1.num, u2.num) < u.num /\ u.num < Max(u1.num, u2.num)}

\* C8 as stated: for all pairs of units u1, u2 of a document,
\* num_edus_between(u1, u2) is |index(u2) - index(u1)| - 1, which is the
\* number of units strictly between them in document order, and it is the
\* same in both directions.
C8_GapAsStated ==
    gpc = "done" =>
        /\ gap.forward = Max(gap_u1.num, gap_u2.num) - Min(gap_u1.num, gap_u2.num) - 1
        /\ gap.forward = Cardinality(Between(gap_u1, gap_u2))
        /\ gap.forward = gap.backward

\* C8, amended: for all pairs of units u1, u2 of a document,
\* num_edus_between(u1, u2) is |index(u2) - index(u1)| - 1 and the same in
\* both directions; for two different units it is the number of units
\* strictly between them, and for a unit paired with itself it is -1.
C8_Gap ==
    gpc = "done" =>
        /\ gap.forward = Max(gap_u1.num, gap_u2.num) - Min(gap_u1.num, gap_u2.num) - 1
        /\ gap.forward = gap.backward
        /\ gap_u1 # gap_u2 => gap.forward = Cardinality(Between(gap_u1, gap_u2))
        /\ gap_u1 = gap_u2 => gap.forward = -1

C8_Witness ==
    /\ gpc = "done" /\ gap_u1 = Edu(1, 4) /\ gap_u2 = Edu(1, 1)
    /\ gap.forward = 2 /\ gap.backward = 2

RECURSIVE StripTrailingRun(_)
\* t without its trailing run of ".", "," and "<P>".
StripTrailingRun(t) ==
    LET n == Len(t)
    IN  IF n >= 1 /\ t[n] \in {".", ","} THEN StripTrailingRun(SubSeq(t, 1, n - 1))
        ELSE IF n >= 3 /\ SubSeq(t, n - 2, n) = <<"<", "P", ">">>
             THEN StripTrailingRun(SubSeq(t, 1, n - 3))
        ELSE t

\* t without one leading double quote, if it has one.
StripOneLeadingQuote(t) == IF t # <<>> /\ Head(t) = "\"" THEN Tail(t) ELSE t

\* The words of t: its maximal runs of characters that are not whitespace,
\* from left to right.
WordsOf(t) ==
    LET isWord(i, j) ==
            /\ i <= j
            /\ \A x \in i..j : t[x] \notin Separators
            /\ (i = 1 \/ t[i - 1] \in Separators)
            /\ (j = Len(t) \/ t[j + 1] \in Separators)
        starts == {i \in 1..Len(t) : \E j \in i..Len(t) : isWord(i, j)}
        endOf(i) == CHOOSE j \in i..Len(t) : isWord(i, j)
        nth(x) == CHOOSE i \in starts : Cardinality({y \in starts : y <= i}) = x
    IN  [x \in 1..Cardinality(starts) |->
            [y \in 1..(endOf(nth(x)) - nth(x) + 1) |-> t[nth(x) + y - 1]]]

\* The lower-case forms of a character: the one the interpreter's case
\* table gives, for the capital sigma either small sigma, for a character
\* the table does not hold the character itself.
LowerForms(c) ==
    IF c = "U+03A3" THEN {<<"U+03C3">>, <<"U+03C2">>}
    ELSE IF c \in DOMAIN CaseTable THEN {CaseTable[c]}
    ELSE {<<c>>}

RECURSIVE SameUpToCase(_, _)
\* tok is word with every character in one of its lower-case forms.
SameUpToCase(tok, word) ==
    IF word = <<>> THEN tok = <<>>
    ELSE \E form \in LowerForms(Head(word)) :
            /\ Len(form) <= Len(tok)
            /\ SubSeq(tok, 1, Len(form)) = form
            /\ SameUpToCase(SubSeq(tok, Len(form) + 1, Len(tok)), Tail(word))

\* tok is word lower-cased: it has no character left that has a lower-case
\* form other than itself, and differs from word by case only.
IsLowerCased(tok, word) ==
    /\ \A i \in DOMAIN tok : tok[i] \notin DOMAIN CaseTable
    /\ SameUpToCase(tok, word)

\* The token list is the words lower-cased, and the features are its
\* length, first and last token.
FeaturesOf(words) ==
    /\ Len(tfeat.tokens) = Len(words)
    /\ \A i \in DOMAIN words : IsLowerCased(tfeat.tokens[i], words[i])
    /\ tfeat.num_tokens = Len(words)
    /\ words # <<>> =>
        /\ tfeat.word_first = tfeat.tokens[1]
        /\ tfeat.word_last = tfeat.tokens[Len(words)]
    /\ words = <<>> =>
        /\ tfeat.word_first = None
        /\ tfeat.word_last = None

\* C10 as stated: for every text the token list is the text without its
\* trailing run of ".", "," and "<P>" and without one leading double quote,
\* split on whitespace and lower-cased; word_first, word_last and
\* num_tokens are its first token, last token and length, and the first and
\* last token of an empty list are None.
C10_TokensAsStated ==
    tpc = "done" => FeaturesOf(WordsOf(StripOneLeadingQuote(StripTrailingRun(text))))

\* The trailing run the code removes: the one that ends the text, or, when
\* the text ends in a newline, the one just before that newline.
StripRunBeforeEnd(t) ==
    IF t # <<>> /\ t[Len(t)] = "\n"
    THEN StripTrailingRun(SubSeq(t, 1, Len(t) - 1)) \o <<"\n">>
    ELSE StripTrailingRun(t)

\* C10, amended: as stated, with the trailing run taken before a final
\* newline when the text ends in one; "Hello there.<P>" gives hello, there
\* and ",,," gives no token and None for the first and last token.
C10_Tokens ==
    tpc = "done" =>
        /\ FeaturesOf(WordsOf(StripOneLeadingQuote(StripRunBeforeEnd(text))))
        /\ text = EduTexts[1] =>
            tfeat.tokens = << <<"h", "e", "l", "l", "o">>, <<"t", "h", "e", "r", "e">> >>
        /\ text = <<",", ",", ",">> =>
            /\ tfeat.tokens = <<>>
            /\ tfeat.word_first = None /\ tfeat.word_last = None

C10_Witness ==
    /\ tpc = "done" /\ text = EduTexts[3]
    /\ tfeat.word_first = <<"w", "e", "l", "l", ",">>
    /\ tfeat.word_last = <<"n", "o">>
    /\ tfeat.num_tokens = 2

RECURSIVE LinesFrom(_, _, _)
\* The lines of a file, without their terminators.
LinesFrom(file, i, line) ==
    IF i > Len(file) THEN (IF line = <<>> THEN <<>> ELSE <<line>>)
    ELSE IF file[i] = "\n" THEN <<line>> \o LinesFrom(file, i + 1, <<>>)
    ELSE LinesFrom(file, i + 1, Append(line, file[i]))

ReadLines(file) == LinesFrom(file, 1, <<>>)

\* The position of the last tab of a line, 0 when it has none.
LastTab(line) ==
    IF \E i \in DOMAIN line : line[i] = "\t"
    THEN CHOOSE i \in DOMAIN line :
            line[i] = "\t" /\ \A j \in DOMAIN line : line[j] = "\t" => j <= i
    ELSE 0

DigitValue(c) == (CHOOSE i \in DOMAIN Digits : Digits[i] = c) - 1

RECURSIVE ReadNumber(_)
\* The number a string of decimal digits denotes, -1 for anything else.
ReadNumber(digits) ==
    IF digits = <<>> \/ \E i \in DOMAIN digits : digits[i] \notin Range(Digits) THEN -1
    ELSE IF Len(digits) = 1 THEN DigitValue(digits[1])
    ELSE 10 * ReadNumber(SubSeq(digits, 1, Len(digits) - 1))
            + DigitValue(digits[Len(digits)])

\* A line read back: the name before the last tab and the number after it.
ReadItem(line) ==
    <<SubSeq(line, 1, LastTab(line) - 1),
      ReadNumber(SubSeq(line, LastTab(line) + 1, Len(line)))>>

\* The file holds one line name<TAB>(index+1) per entry, in ascending order
\* of index, and read back it gives the vocabulary with every index one
\* higher.
DumpedAsClaimed ==
    LET lines == ReadLines(f)
        items == [i \in DOMAIN lines |-> ReadItem(lines[i])]
    IN  /\ Len(lines) = Len(vocabulary)
        /\ \A i \in DOMAIN lines : LastTab(lines[i]) > 0
        /\ \A i, j \in DOMAIN items : i < j => items[i][2] <= items[j][2]
        /\ Range(items) = {<<vocabulary[i][1], vocabulary[i][2] + 1>> : i \in DOMAIN vocabulary}
        /\ f # <<>> => f[Len(f)] = "\n"

NoLineBreakInNames ==
    \A i \in DOMAIN vocabulary : "\n" \notin Range(vocabulary[i][1])

\* C9, on the vocabularies none of whose names holds a line break: a call of
\* the serializer returns, and the file then holds one line
\* name<TAB>(index+1) per entry in ascending order of index, which read back
\* give the original mapping with every index shifted by one.
C9_Dump ==
    (vpc \in {"done", "TypeError"} /\ NoLineBreakInNames)
        => (vpc = "done" /\ DumpedAsClaimed)

====
